---- MODULE Spec2Model ----
(***************************************************************************)
(* Model of aar_doc/defaults.py: the RoleDefaultsManager collector, its    *)
(* projection to a CommentedMap, the generate_commented_defaults driver    *)
(* and the write_defaults writer.                                          *)
(***************************************************************************)
EXTENDS Integers, Sequences, FiniteSets, TLC

\* ------------------------------------------------------------------ bounds

\* Number of add_default calls recorded in a run of the collector.
MaxCalls == 3
\* Longest string value (in characters) passed to add_default.
MaxStrLen == 3
\* Number of entry points in argument_spec_data.
MaxEntryPoints == 2
\* Number of components of the requested output path.
MaxPathLen == 2

\* ------------------------------------------------------- Python values

\* A Python value: kind "none", "bool", "int", "str", or "absent" (the key is
\* not in the dict at all).  A str carries its characters; lit is TRUE for a
\* LiteralScalarString (a str subclass with the same characters).
NoneV == [kind |-> "none", chars |-> <<>>, num |-> 0, lit |-> FALSE]
AbsentV == [kind |-> "absent", chars |-> <<>>, num |-> 0, lit |-> FALSE]
IntV(n) == [kind |-> "int", chars |-> <<>>, num |-> n, lit |-> FALSE]
BoolV(b) == [kind |-> "bool", chars |-> <<>>, num |-> IF b THEN 1 ELSE 0, lit |-> FALSE]
StrV(s) == [kind |-> "str", chars |-> s, num |-> 0, lit |-> FALSE]

\* isinstance(value, str)
IsStr(v) == v.kind = "str"

\* Characters Python's str.strip() removes (those of the model's alphabet).
Whitespace == {" ", "\n", "\t"}

RECURSIVE lstrip(_)
lstrip(s) ==
    IF s = <<>> THEN s
    ELSE IF Head(s) \in Whitespace THEN lstrip(Tail(s)) ELSE s

RECURSIVE rstrip(_)
rstrip(s) ==
    IF s = <<>> THEN s
    ELSE IF s[Len(s)] \in Whitespace THEN rstrip(SubSeq(s, 1, Len(s) - 1)) ELSE s

\* A strip that forgets the trailing side.
strip_leading_only(s) == lstrip(s)

\* str.strip()
strip(s) == rstrip(lstrip(s))

\* "\n" in value
HasNewline(s) == \E i \in 1..Len(s) : s[i] = "\n"

\* The default of add_default's description parameter.
Placeholder == StrV(<<"No description provided.">>)

\* ------------------------------------------------------- ordered dict

\* A dict is a sequence of entries with distinct keys, in insertion order.
Keys(d) == [i \in 1..Len(d) |-> d[i].name]
KeySet(d) == {d[i].name : i \in 1..Len(d)}
IndexOf(d, name) == CHOOSE i \in 1..Len(d) : d[i].name = name
Entry(d, name) == d[IndexOf(d, name)]

\* RoleDefault(name, value, description)
RoleDefault(name, value, description) ==
    [name |-> name, value |-> value, description |-> description]

\* d[name] = e moved to the end instead of kept in place.
DictSetMoveToEnd(d, name, e) ==
    Append(SelectSeq(d, LAMBDA x : x.name # name), e)

\* d[name] = e: a present key keeps its position, a new key goes last.
DictSet(d, name, e) ==
    IF name \in KeySet(d)
    THEN [d EXCEPT ![IndexOf(d, name)] = e]
    ELSE Append(d, e)

\* A setdefault that replaces like an assignment.
DictSetDefaultReplacing(d, name, e) == DictSet(d, name, e)

\* d.setdefault(name, e)
DictSetDefault(d, name, e) ==
    IF name \in KeySet(d) THEN d ELSE Append(d, e)

\* ------------------------------------------------------------- state

VARIABLES
    _defaults,          \* RoleDefaultsManager._defaults
    _overwrite,         \* RoleDefaultsManager._overwrite
    commented_defaults, \* the CommentedMap last returned, if any
    calls,              \* history: the add_default calls made, in order
    lastCall,           \* history: the arguments of the latest add_default and
                        \* the collection it was called on
    \* generate_commented_defaults
    dpc,                \* where the driver is: "idle", "entry", "options", "returned"
    entry_points_left,  \* entry points of argument_spec_data not yet visited
    skipped,            \* history: entry points passed over for lack of options
    seen_names,         \* option names of the current entry point already visited
    lastOption,         \* history: the option the loop body last processed
    nonnull_names,      \* history: names met with a non-null default
    \* write_defaults
    wpc,                \* where the writer is
    output_file_path,   \* argument
    role_path,          \* argument
    output,             \* the resolved target
    handle,             \* defaults_file: "none", "open", "closed"
    file,               \* what has been written to the destination
    exc,                \* the OSError being handled, if any
    echoed,             \* messages given to typer.echo
    exit_code,          \* the code of typer.Exit, -1 while none was raised
    log                 \* history: the steps taken, in order

mvars == <<_defaults, _overwrite, commented_defaults, calls, lastCall>>
dvars == <<dpc, entry_points_left, skipped, seen_names, lastOption, nonnull_names>>
wvars == <<wpc, output_file_path, role_path, output, handle, file, exc, echoed,
           exit_code, log>>
vars == <<mvars, dvars, wvars>>

NoMap == [returned |-> FALSE, map |-> <<>>]
NoCall == <<>>

\* ------------------------------------------------- RoleDefaultsManager

\* defaults property
defaults == _defaults

\* add_default(name, value, description): the new _defaults
add_default(name, value, description) ==
    LET v == IF IsStr(value) THEN StrV(strip(value.chars)) ELSE value
        e == RoleDefault(name, v, description)
    IN IF _overwrite
       THEN DictSet(_defaults, name, e)
       ELSE DictSetDefault(_defaults, name, e)

\* LiteralScalarString(value)
LiteralScalarString(v) == [v EXCEPT !.lit = TRUE]

\* A newline test that marks every string.
NeedsLiteralAnyString(v) == IsStr(v)

\* isinstance(value, str) and "\n" in value
NeedsLiteral(v) == IsStr(v) /\ HasNewline(v.chars)

\* commented_defaults[key] = value on a CommentedMap
MapSet(cm, key, value) ==
    IF key \in KeySet(cm)
    THEN [cm EXCEPT ![IndexOf(cm, key)].value = value]
    ELSE Append(cm, [name |-> key, value |-> value, comments |-> <<>>])

\* CommentedMap.yaml_set_comment_before_after_key(key, before): the comment
\* is added before the key; a None `before` adds nothing.
MapSetCommentBefore(cm, key, before) ==
    IF before.kind = "none" THEN cm
    ELSE [cm EXCEPT ![IndexOf(cm, key)].comments = Append(@, before)]

\* One turn of the loop of to_commented_map
ProjectOne(cm, role_default) ==
    LET value == IF NeedsLiteral(role_default.value)
                 THEN LiteralScalarString(role_default.value)
                 ELSE role_default.value
    IN MapSetCommentBefore(MapSet(cm, role_default.name, value),
                           role_default.name, role_default.description)

\* A projection that walks the entries last to first.
RECURSIVE ProjectReversed(_)
ProjectReversed(ds) ==
    IF ds = <<>> THEN <<>>
    ELSE ProjectOne(ProjectReversed(Tail(ds)), Head(ds))

\* The loop of to_commented_map over the list of role defaults
RECURSIVE Project(_)
Project(ds) ==
    IF ds = <<>> THEN <<>>
    ELSE ProjectOne(Project(SubSeq(ds, 1, Len(ds) - 1)), ds[Len(ds)])

\* to_commented_map()
to_commented_map == Project(defaults)

\* ------------------------------------------- collector, direct calls

Names == {"timeout", "retries"}
Descriptions == {StrV(<<"Timeout in seconds">>), StrV(<<"overridden">>)}
Values == {IntV(30), StrV(<<" ", "x", " ">>), StrV(<<"a", "\n", "b">>)}

ManagerInit ==
    /\ _defaults = <<>>
    /\ commented_defaults = NoMap
    /\ calls = <<>>
    /\ lastCall = NoCall

DriverIdle ==
    /\ dpc = "idle"
    /\ entry_points_left = 0
    /\ skipped = 0
    /\ seen_names = {}
    /\ lastOption = <<>>
    /\ nonnull_names = {}

NoPath == [absolute |-> FALSE, parts |-> <<>>]

WriterIdle ==
    /\ wpc = "idle"
    /\ output_file_path = NoPath
    /\ role_path = NoPath
    /\ output = NoPath
    /\ handle = "none"
    /\ file = <<>>
    /\ exc = ""
    /\ echoed = <<>>
    /\ exit_code = -1
    /\ log = <<>>

Init ==
    /\ ManagerInit
    /\ _overwrite \in BOOLEAN
    /\ DriverIdle
    /\ WriterIdle

Call(name, value, description) ==
    /\ _defaults' = add_default(name, value, description)
    /\ commented_defaults' = NoMap
    /\ lastCall' = <<[name |-> name, value |-> value, description |-> description,
                       before |-> _defaults]>>
    /\ UNCHANGED _overwrite

\* A call add_default(name, value, description)
AddDefault ==
    \E name \in Names, value \in Values, description \in Descriptions :
        /\ Len(calls) < MaxCalls
        /\ Call(name, value, description)
        /\ calls' = Append(calls, [name |-> name, value |-> value,
                                   description |-> description])
        /\ UNCHANGED <<dvars, wvars>>

\* A call add_default(name, value), the description left to its default
AddDefaultNoDescription ==
    \E name \in Names, value \in Values :
        /\ Len(calls) < MaxCalls
        /\ Call(name, value, Placeholder)
        /\ calls' = Append(calls, [name |-> name, value |-> value,
                                   description |-> Placeholder])
        /\ UNCHANGED <<dvars, wvars>>

\* A call to_commented_map()
ToCommentedMap ==
    /\ commented_defaults' = [returned |-> TRUE, map |-> to_commented_map]
    /\ UNCHANGED <<_defaults, _overwrite, calls, lastCall, dvars, wvars>>

Next == AddDefault \/ AddDefaultNoDescription \/ ToCommentedMap

Spec == Init /\ [][Next]_vars

\* ---------------------------------------------- claims on the collector

\* t is s without its leading and trailing whitespace.
IsTrimOf(t, s) ==
    \E i \in 1..(Len(s) + 1), j \in 0..Len(s) :
        /\ t = SubSeq(s, i, j)
        /\ \A k \in 1..(i - 1) : s[k] \in Whitespace
        /\ \A k \in (j + 1)..Len(s) : s[k] \in Whitespace
        /\ t # <<>> => (t[1] \notin Whitespace /\ t[Len(t)] \notin Whitespace)

\* `stored` is what add_default keeps of the value `passed`.
IsStoredFormOf(stored, passed) ==
    IF passed.kind = "str"
    THEN stored.kind = "str" /\ ~stored.lit /\ IsTrimOf(stored.chars, passed.chars)
    ELSE stored = passed

\* The indices of the calls that name a name for the first time, in order.
FirstOccurrences ==
    SelectSeq([i \in 1..Len(calls) |-> i],
              LAMBDA i : \A j \in 1..(i - 1) : calls[j].name # calls[i].name)

\* The index of the last call that names `name`.
LastOccurrence(name) ==
    CHOOSE i \in 1..Len(calls) :
        /\ calls[i].name = name
        /\ \A j \in (i + 1)..Len(calls) : calls[j].name # name

\* C1: without overwrite, after any sequence of add_default calls the
\* collection holds one entry per name called, in the order the names were
\* first called, each with the trimmed value and the description of the
\* FIRST call with that name (so a later call with a present name changes
\* nothing).
C1_FirstCallWins ==
    ~_overwrite =>
        LET f == FirstOccurrences
        IN /\ Len(_defaults) = Len(f)
           /\ \A k \in 1..Len(f) :
                /\ _defaults[k].name = calls[f[k]].name
                /\ IsStoredFormOf(_defaults[k].value, calls[f[k]].value)
                /\ _defaults[k].description = calls[f[k]].description
           /\ (lastCall # NoCall /\ lastCall[1].name \in KeySet(lastCall[1].before))
                => _defaults = lastCall[1].before

C1_Witness ==
    /\ ~_overwrite
    /\ Len(calls) = 3
    /\ calls[1].name = calls[3].name
    /\ calls[2].name # calls[1].name
    /\ calls[1].value = StrV(<<" ", "x", " ">>)
    /\ calls[3].value = IntV(30)
    /\ calls[3].description # calls[1].description
    /\ Len(_defaults) = 2
    /\ _defaults[1].value = StrV(<<"x">>)
    /\ _defaults = lastCall[1].before

\* C2: with overwrite, after any sequence of add_default calls the entry of
\* a name holds the trimmed value and the description of the LAST call with
\* that name, at the position of the name's FIRST call; the number of
\* entries is the number of distinct names called.
C2_LastCallWinsInPlace ==
    _overwrite =>
        LET f == FirstOccurrences
        IN /\ Len(_defaults) = Len(f)
           /\ \A k \in 1..Len(f) :
                LET name == calls[f[k]].name
                    last == calls[LastOccurrence(name)]
                IN /\ defaults[k].name = name
                   /\ IsStoredFormOf(defaults[k].value, last.value)
                   /\ defaults[k].description = last.description

C2_Witness ==
    /\ _overwrite
    /\ Len(calls) = 3
    /\ calls[1].name = calls[3].name
    /\ calls[2].name # calls[1].name
    /\ calls[1].value = IntV(30)
    /\ calls[3].value = StrV(<<" ", "x", " ">>)
    /\ calls[3].description # calls[1].description
    /\ Len(defaults) = 2
    /\ defaults[1].name = calls[1].name
    /\ defaults[1].value = StrV(<<"x">>)
    /\ defaults[1].description = calls[3].description

\* The value without the LiteralScalarString mark.
Unmarked(v) == [v EXCEPT !.lit = FALSE]

Chars == {"x", " ", "\n"}
AllStrings == UNION {[1..n -> Chars] : n \in 0..MaxStrLen}
StringValues == {StrV(s) : s \in AllStrings} \cup {IntV(0), BoolV(FALSE), NoneV}

StringNames == {"timeout"}

\* A call add_default(name, value), value any short string or a non-string
AddValue ==
    \E name \in StringNames, value \in StringValues :
        /\ Call(name, value, Placeholder)
        /\ UNCHANGED <<calls, dvars, wvars>>

NextStrings == AddValue \/ ToCommentedMap

SpecStrings == Init /\ [][NextStrings]_vars

\* C6: in the returned document a value is a LiteralScalarString exactly
\* when it is a string with a newline in it; the mark leaves the content as
\* stored.  A value passed with only leading or trailing newlines is stored
\* trimmed and so is not marked.
C6_LiteralIffNewline ==
    commented_defaults.returned =>
        LET doc == commented_defaults.map
        IN /\ Len(doc) = Len(defaults)
           /\ \A k \in 1..Len(doc) :
                /\ doc[k].value.lit <=>
                      (doc[k].value.kind = "str"
                       /\ \E i \in 1..Len(doc[k].value.chars) :
                              doc[k].value.chars[i] = "\n")
                /\ Unmarked(doc[k].value) = defaults[k].value

C6_Witness ==
    /\ commented_defaults.returned
    /\ _overwrite
    /\ lastCall # NoCall
    /\ lastCall[1].before # <<>>
    /\ lastCall[1].before[1].value = StrV(<<"x", "\n", "x">>)
    /\ lastCall[1].value = StrV(<<"x", "\n">>)
    /\ Len(commented_defaults.map) = 1
    /\ commented_defaults.map[1].name = lastCall[1].name
    /\ commented_defaults.map[1].value = StrV(<<"x">>)

\* No stored string starts or ends with whitespace.
StoredTrimmed ==
    \A k \in 1..Len(_defaults) :
        LET v == _defaults[k].value
        IN (v.kind = "str" /\ v.chars # <<>>) =>
              (v.chars[1] \notin Whitespace /\ v.chars[Len(v.chars)] \notin Whitespace)

\* C9: every stored string is free of leading and trailing whitespace and
\* a non-string is stored as passed; with overwrite, a call whose value
\* trims to the value already stored for the name (the stored value itself
\* included), with the stored description, leaves the collection as it was.
C9_TrimmedAndIdempotent ==
    /\ StoredTrimmed
    /\ lastCall # NoCall =>
          LET c == lastCall[1]
          IN /\ (_overwrite \/ c.name \notin KeySet(c.before))
                   => IsStoredFormOf(Entry(_defaults, c.name).value, c.value)
             /\ (/\ _overwrite
                 /\ c.name \in KeySet(c.before)
                 /\ IsStoredFormOf(Entry(c.before, c.name).value, c.value)
                 /\ Entry(c.before, c.name).description = c.description)
                   => _defaults = c.before

C9_Witness ==
    /\ _overwrite
    /\ lastCall # NoCall
    /\ lastCall[1].value = StrV(<<"x">>)
    /\ lastCall[1].name \in KeySet(lastCall[1].before)
    /\ Entry(lastCall[1].before, lastCall[1].name).value = StrV(<<"x">>)
    /\ _defaults = lastCall[1].before
    /\ commented_defaults = NoMap

\* ------------------------------------------ generate_commented_defaults

\* dict.get(key): None for a key that is not there
Get(v) == IF v.kind = "absent" THEN NoneV ELSE v

\* A truthiness test in the place of the None test.
IsTruthy(v) ==
    /\ v.kind # "none"
    /\ v.kind = "bool" => v.num = 1
    /\ v.kind = "int" => v.num # 0
    /\ v.kind = "str" => v.chars # <<>>

\* value is not None
IsNotNone(v) == v.kind # "none"

OptionDefaults == {AbsentV, NoneV, BoolV(FALSE), IntV(0), StrV(<<>>), IntV(30)}
OptionDescriptions == {AbsentV, NoneV, StrV(<<"Timeout in seconds">>)}
OptionSpecs == [default : OptionDefaults, description : OptionDescriptions]

\* defaults_manager = RoleDefaultsManager(overwrite_duplicate_defaults), and
\* an argument_spec_data of up to MaxEntryPoints entry points
InitDriver ==
    /\ ManagerInit
    /\ _overwrite \in BOOLEAN
    /\ dpc = "entries"
    /\ entry_points_left \in 0..MaxEntryPoints
    /\ skipped = 0
    /\ seen_names = {}
    /\ lastOption = <<>>
    /\ nonnull_names = {}
    /\ WriterIdle

\* The outer loop meets an entry point whose descriptor has no "options"
\* key: `if not options: continue`
EntryPointWithoutOptions ==
    /\ dpc = "entries"
    /\ entry_points_left > 0
    /\ entry_points_left' = entry_points_left - 1
    /\ skipped' = skipped + 1
    /\ UNCHANGED <<dpc, seen_names, lastOption, nonnull_names, mvars, wvars>>

\* The outer loop meets an entry point whose "options" is None or empty:
\* `if not options: continue`
EntryPointEmptyOptions ==
    /\ dpc = "entries"
    /\ entry_points_left > 0
    /\ entry_points_left' = entry_points_left - 1
    /\ skipped' = skipped + 1
    /\ UNCHANGED <<dpc, seen_names, lastOption, nonnull_names, mvars, wvars>>

\* The outer loop meets an entry point with options: the inner loop starts
EntryPointWithOptions ==
    /\ dpc = "entries"
    /\ entry_points_left > 0
    /\ dpc' = "options"
    /\ seen_names' = {}
    /\ UNCHANGED <<entry_points_left, skipped, lastOption, nonnull_names, mvars, wvars>>

\* One turn of the inner loop, on the next option (name, spec) of the
\* entry point
NextOption ==
    \E name \in Names \ seen_names, spec \in OptionSpecs :
        LET value == Get(spec.default)
            description == Get(spec.description)
        IN /\ dpc = "options"
           /\ IF IsNotNone(value)
              THEN _defaults' = add_default(name, value, description)
              ELSE UNCHANGED _defaults
           /\ seen_names' = seen_names \cup {name}
           /\ lastOption' = <<[name |-> name, spec |-> spec]>>
           /\ nonnull_names' =
                 IF spec.default.kind \in {"absent", "none"}
                 THEN nonnull_names ELSE nonnull_names \cup {name}
           /\ UNCHANGED <<dpc, entry_points_left, skipped, _overwrite,
                          commented_defaults, calls, lastCall, wvars>>

\* The inner loop is through the options of the entry point
EndOfOptions ==
    /\ dpc = "options"
    /\ seen_names # {}
    /\ dpc' = "entries"
    /\ entry_points_left' = entry_points_left - 1
    /\ UNCHANGED <<skipped, seen_names, lastOption, nonnull_names, mvars, wvars>>

\* return defaults_manager.to_commented_map()
Return ==
    /\ dpc = "entries"
    /\ entry_points_left = 0
    /\ dpc' = "returned"
    /\ commented_defaults' = [returned |-> TRUE, map |-> to_commented_map]
    /\ UNCHANGED <<entry_points_left, skipped, seen_names, lastOption, nonnull_names,
                   _defaults, _overwrite, calls, lastCall, wvars>>

NextDriver ==
    \/ EntryPointWithoutOptions
    \/ EntryPointEmptyOptions
    \/ EntryPointWithOptions
    \/ NextOption
    \/ EndOfOptions
    \/ Return

SpecDriver == InitDriver /\ [][NextDriver]_vars

\* C3: when the driver processes an option with a non-null default and no
\* description (the key missing, or null) and the collector takes the entry
\* (the name is new, or overwrite is set), the entry's description is the
\* placeholder "No description provided.".
C3_PlaceholderWhenNoDescription ==
    [][(/\ dpc = "options"
        /\ seen_names' # seen_names
        /\ lastOption'[1].spec.default.kind \notin {"absent", "none"}
        /\ lastOption'[1].spec.description.kind \in {"absent", "none"}
        /\ (_overwrite \/ lastOption'[1].name \notin KeySet(_defaults)))
       => Entry(_defaults', lastOption'[1].name).description = Placeholder]_vars

\* C4: the keys of the returned document are exactly the option names that
\* have a non-null default in at least one entry point, each once.
C4_KeysAreNonNullDefaults ==
    dpc = "returned" =>
        /\ KeySet(commented_defaults.map) = nonnull_names
        /\ Len(commented_defaults.map) = Cardinality(nonnull_names)

C4_Witness ==
    /\ dpc = "returned"
    /\ skipped > 0
    /\ lastOption # <<>>
    /\ lastOption[1].name = "timeout"
    /\ lastOption[1].spec.default = NoneV
    /\ nonnull_names = {"retries"}
    /\ Len(commented_defaults.map) = 1
    /\ commented_defaults.map[1].name = "retries"
    /\ commented_defaults.map[1].value = BoolV(FALSE)

\* --------------------------------------------------------- write_defaults

\* A pathlib.Path: absolute or not, and its components below the root.
PathParts == {"README.md", "docs", "vars.yml"}
Paths == [absolute : BOOLEAN, parts : UNION {[1..n -> PathParts] : n \in 0..MaxPathLen}]
RolePaths ==
    {[absolute |-> FALSE, parts |-> <<>>],
     [absolute |-> FALSE, parts |-> <<"role">>],
     [absolute |-> TRUE, parts |-> <<"roles", "role">>]}

\* Path.name: the last component, "" when there is none
PathName(p) == IF p.parts = <<>> THEN "" ELSE p.parts[Len(p.parts)]

\* Path.is_absolute()
IsAbsolute(p) == p.absolute

\* p / q: an absolute q replaces p
Join(p, q) ==
    IF q.absolute THEN q
    ELSE [absolute |-> p.absolute, parts |-> p.parts \o q.parts]

\* p / "component"
JoinStr(p, component) == [p EXCEPT !.parts = Append(@, component)]

\* Path.parent
Parent(p) ==
    IF p.parts = <<>> THEN p
    ELSE [p EXCEPT !.parts = SubSeq(@, 1, Len(@) - 1)]

\* A resolution that tests is_absolute() before the file name.
TargetAbsoluteFirst(requested, role) ==
    IF IsAbsolute(requested) THEN requested
    ELSE IF PathName(requested) = "README.md"
    THEN JoinStr(JoinStr(role, "defaults"), "main.yml")
    ELSE Join(JoinStr(role, "defaults"), requested)

\* The if/elif/else that chooses `output`
Target(requested, role) ==
    IF PathName(requested) = "README.md"
    THEN JoinStr(JoinStr(role, "defaults"), "main.yml")
    ELSE IF IsAbsolute(requested) THEN requested
    ELSE Join(JoinStr(role, "defaults"), requested)

\* OSError.strerror of the errors the file system may raise
OSErrors == {"Permission denied", "No space left on device"}

\* A message is a sequence of fragments: literal text, or a formatted path.
Text(t) == [text |-> t, path |-> NoPath]
Formatted(p) == [text |-> "", path |-> p]

\* The message of the first except block: its second literal is not an
\* f-string, so the braces stay as written.
MkdirMessage(target, error) ==
    <<Text("Unable to create necessary directories for '"), Formatted(target),
      Text("'. "),
      Text("The following error occured: '{exc.strerror}'.")>>

\* The message of the second except block
WriteMessage(target, error) ==
    <<Text("Unable to write the file '"), Formatted(target),
      Text("'. The following error occured: '"), Text(error), Text("'")>>

DocumentStart == "---"
Banner == "# Automatically generated by aar-doc"
Dumped == "yaml.dump(role_defaults)"

InitWrite ==
    /\ ManagerInit
    /\ _overwrite = FALSE
    /\ DriverIdle
    /\ wpc = "resolve"
    /\ output_file_path \in Paths
    /\ role_path \in RolePaths
    /\ output = NoPath
    /\ handle = "none"
    /\ file = <<>>
    /\ exc = ""
    /\ echoed = <<>>
    /\ exit_code = -1
    /\ log = <<>>

\* The choice of `output`; output.resolve() returns a path nobody keeps
ResolveTarget ==
    /\ wpc = "resolve"
    /\ output' = Target(output_file_path, role_path)
    /\ log' = Append(log, "resolve")
    /\ wpc' = "mkdir"
    /\ UNCHANGED <<output_file_path, role_path, handle, file, exc, echoed,
                   exit_code, mvars, dvars>>

\* output.parent.mkdir(parents=True, exist_ok=True)
Mkdir ==
    /\ wpc = "mkdir"
    /\ log' = Append(log, "mkdir")
    /\ wpc' = "open"
    /\ UNCHANGED <<output_file_path, role_path, output, handle, file, exc, echoed,
                   exit_code, mvars, dvars>>

\* mkdir raises OSError
MkdirRaises ==
    \E error \in OSErrors :
        /\ wpc = "mkdir"
        /\ exc' = error
        /\ log' = Append(log, "mkdir failed")
        /\ wpc' = "except mkdir"
        /\ UNCHANGED <<output_file_path, role_path, output, handle, file, echoed,
                       exit_code, mvars, dvars>>

\* The first except block: echo, raise typer.Exit(1)
ExceptMkdir ==
    /\ wpc = "except mkdir"
    /\ echoed' = Append(echoed, MkdirMessage(output, exc))
    /\ exit_code' = 1
    /\ wpc' = "exited"
    /\ UNCHANGED <<output_file_path, role_path, output, handle, file, exc, log,
                   mvars, dvars>>

\* open(output, "w", encoding="utf-8"): the file is created or truncated
Open ==
    /\ wpc = "open"
    /\ handle' = "open"
    /\ file' = <<>>
    /\ log' = Append(log, "open")
    /\ wpc' = "write marker"
    /\ UNCHANGED <<output_file_path, role_path, output, exc, echoed, exit_code,
                   mvars, dvars>>

\* open raises OSError: there is no handle
OpenRaises ==
    \E error \in OSErrors :
        /\ wpc = "open"
        /\ exc' = error
        /\ log' = Append(log, "open failed")
        /\ wpc' = "except write"
        /\ UNCHANGED <<output_file_path, role_path, output, handle, file, echoed,
                       exit_code, mvars, dvars>>

\* writelines, first line: "---" + linesep
WriteMarker ==
    /\ wpc = "write marker"
    /\ file' = Append(file, DocumentStart)
    /\ log' = Append(log, "write marker")
    /\ wpc' = "write banner"
    /\ UNCHANGED <<output_file_path, role_path, output, handle, exc, echoed,
                   exit_code, mvars, dvars>>

\* writelines, second line: the banner + linesep
WriteBanner ==
    /\ wpc = "write banner"
    /\ file' = Append(file, Banner)
    /\ log' = Append(log, "write banner")
    /\ wpc' = "dump"
    /\ UNCHANGED <<output_file_path, role_path, output, handle, exc, echoed,
                   exit_code, mvars, dvars>>

\* yaml.dump(role_defaults, defaults_file)
Dump ==
    /\ wpc = "dump"
    /\ file' = Append(file, Dumped)
    /\ log' = Append(log, "dump")
    /\ wpc' = "close"
    /\ UNCHANGED <<output_file_path, role_path, output, handle, exc, echoed,
                   exit_code, mvars, dvars>>

\* The end of the with block: the handle is closed
Close ==
    /\ wpc = "close"
    /\ handle' = "closed"
    /\ log' = Append(log, "close")
    /\ wpc' = "done"
    /\ UNCHANGED <<output_file_path, role_path, output, file, exc, echoed, exit_code,
                   mvars, dvars>>

\* A body that, on an OSError, goes to the except block with the handle
\* left open.
WriteRaisesLeavesOpen ==
    \E error \in OSErrors :
        /\ wpc \in {"write marker", "write banner", "dump", "close"}
        /\ exc' = error
        /\ log' = Append(log, "write failed")
        /\ wpc' = "except write"
        /\ UNCHANGED <<output_file_path, role_path, output, handle, file, echoed,
                       exit_code, mvars, dvars>>

\* A write in the with block, or the flush of its close, raises OSError:
\* the with statement closes the handle, then the except block runs.  What
\* the failed write left in the file is not known.
WriteRaises ==
    \E error \in OSErrors, partial \in BOOLEAN :
        /\ wpc \in {"write marker", "write banner", "dump", "close"}
        /\ exc' = error
        /\ file' = IF partial /\ wpc # "close" THEN Append(file, "partial") ELSE file
        /\ handle' = "closed"
        /\ log' = log \o <<"write failed", "close">>
        /\ wpc' = "except write"
        /\ UNCHANGED <<output_file_path, role_path, output, echoed, exit_code,
                       mvars, dvars>>

\* yaml.dump raises something that is no OSError: the with statement closes
\* the handle and the exception leaves write_defaults
DumpRaisesOther ==
    /\ wpc = "dump"
    /\ handle' = "closed"
    /\ log' = log \o <<"dump failed", "close">>
    /\ wpc' = "raised"
    /\ UNCHANGED <<output_file_path, role_path, output, file, exc, echoed, exit_code,
                   mvars, dvars>>

\* The second except block: echo, raise typer.Exit(1)
ExceptWrite ==
    /\ wpc = "except write"
    /\ echoed' = Append(echoed, WriteMessage(output, exc))
    /\ exit_code' = 1
    /\ wpc' = "exited"
    /\ UNCHANGED <<output_file_path, role_path, output, handle, file, exc, log,
                   mvars, dvars>>

NextWrite ==
    \/ ResolveTarget
    \/ Mkdir
    \/ MkdirRaises
    \/ ExceptMkdir
    \/ Open
    \/ OpenRaises
    \/ WriteMarker
    \/ WriteBanner
    \/ Dump
    \/ Close
    \/ WriteRaises
    \/ DumpRaisesOther
    \/ ExceptWrite

SpecWrite == InitWrite /\ [][NextWrite]_vars

\* ------------------------------------------------- claims on the writer

\* The message holds the text `error`.
Mentions(message, error) == \E i \in 1..Len(message) : message[i].text = error

\* C7: whenever write_defaults ends on an OSError (from the creation of
\* the directories or from the open or the write), one message was echoed,
\* it holds the error's strerror, and the exit code is 1.
C7_ErrorsReportedWithStrerror ==
    /\ exc # "" => wpc \in {"except mkdir", "except write", "exited"}
    /\ wpc = "exited" =>
          /\ exc \in OSErrors
          /\ exit_code = 1
          /\ Len(echoed) = 1
          /\ Mentions(echoed[1], exc)

\* C8: the target is <role>/defaults/main.yml when the requested path's
\* name is README.md (absolute or not, with directories or not); else the
\* requested path itself when it is absolute; else
\* <role>/defaults/<requested>.
C8_TargetByThreeCases ==
    wpc \notin {"idle", "resolve"} =>
        LET name == IF Len(output_file_path.parts) = 0 THEN ""
                    ELSE output_file_path.parts[Len(output_file_path.parts)]
            below(tail) == [absolute |-> role_path.absolute,
                            parts |-> role_path.parts \o <<"defaults">> \o tail]
        IN /\ name = "README.md" => output = below(<<"main.yml">>)
           /\ (name # "README.md" /\ output_file_path.absolute)
                 => output = output_file_path
           /\ (name # "README.md" /\ ~output_file_path.absolute)
                 => output = below(output_file_path.parts)

C8_Witness ==
    /\ wpc = "done"
    /\ output_file_path = [absolute |-> TRUE, parts |-> <<"docs", "README.md">>]
    /\ role_path = [absolute |-> FALSE, parts |-> <<"role">>]
    /\ output = [absolute |-> FALSE, parts |-> <<"role", "defaults", "main.yml">>]

\* The steps of a run that meets no error.
StepsInOrder ==
    <<"resolve", "mkdir", "open", "write marker", "write banner", "dump", "close">>

Failures == {"mkdir failed", "open failed", "write failed", "dump failed"}
Logged == {log[i] : i \in 1..Len(log)}
StepsTaken == SelectSeq(log, LAMBDA e : e \notin Failures)

\* C10: the steps taken are a beginning of resolve, mkdir, open, marker,
\* banner, dump, close, with the close alone allowed to come early after
\* the open; a run without error takes them all and leaves the marker, the
\* banner and the dumped document in the file; after a failed mkdir the
\* file is neither opened nor written; and once write_defaults has ended,
\* a handle that was opened is closed.
C10_StepsInOrderAndClosed ==
    /\ \E k \in 0..Len(StepsInOrder) :
          \/ StepsTaken = SubSeq(StepsInOrder, 1, k)
          \/ (k >= 3 /\ StepsTaken = Append(SubSeq(StepsInOrder, 1, k), "close"))
    /\ wpc = "done" =>
          /\ StepsTaken = StepsInOrder
          /\ log = StepsInOrder
          /\ file = <<DocumentStart, Banner, Dumped>>
    /\ "mkdir failed" \in Logged =>
          ("open" \notin Logged /\ handle = "none" /\ file = <<>>)
    /\ handle = "none" <=> "open" \notin Logged
    /\ wpc \in {"done", "exited", "raised", "except write"} =>
          (handle # "open" /\ ("open" \in Logged => "close" \in Logged))

C10_Witness ==
    /\ wpc = "exited"
    /\ log = <<"resolve", "mkdir", "open", "write marker", "write failed", "close">>
    /\ handle = "closed"
    /\ exit_code = 1

====
